---- MODULE Spec2Model ----
(***************************************************************************)
(* Model of angle-grinder's alias subsystem (src/src/alias.rs) and of the  *)
(* agrind entry point (src/src/bin/agrind.rs).                             *)
(*                                                                         *)
(* Strings are sequences of symbols; every symbol stands for a fixed,      *)
(* non-empty, '='-free run of characters, except "=" which is the single   *)
(* character '='.  A query-language template is the sequence of the stage  *)
(* identifiers it chains with the pipe token.                              *)
(***************************************************************************)
EXTENDS Naturals, Sequences, FiniteSets, TLC

VARIABLES
    args,             \* Cli: the parsed command line
    call,             \* which load entry point runs, and its path argument
    pc,               \* position in main / in the load pass
    pass,             \* "ancestors" | "dir": the load pass in progress
    depth,            \* number of directories path.ancestors() yields
    dirIdx,           \* ancestor being visited; 0 is the working directory
    valid_aliases,    \* AliasAccum.valid_aliases
    origin,           \* for each valid alias, the ancestor index it came from
    invalid_aliases,  \* AliasAccum.invalid_aliases
    cur,              \* the directory entry taken by the aliases_from_dir loop
    against,          \* the alias slice handed to the last parse_alias call
    fileBudget,       \* how many definition files the environment may still offer
    faults,           \* the I/O failures the environment has produced so far
    loadResult,       \* "none" | "ok" | "err": what the load entry point returned
    aliases,          \* main's `aliases` (the collection handed to the query)
    errors,           \* main's `errors`
    warned,           \* number of warnings handed to the error reporter
    output_mode,      \* main's `output_mode`
    effects,          \* what main has done: "pipeline", "open", "process"
    result,           \* "running" or what main returned
    output_param,     \* argument of a direct parse_output call
    parsed            \* its result

vars == <<args, call, pc, pass, depth, dirIdx, valid_aliases, origin, invalid_aliases,
          cur, against, fileBudget, faults, loadResult, aliases, errors, warned,
          output_mode, effects, result, output_param, parsed>>

loadVars == <<pass, depth, dirIdx, valid_aliases, origin, invalid_aliases, cur,
              against, fileBudget, faults, loadResult>>

mainVars == <<aliases, errors, warned, output_mode, effects, result>>

outVars == <<output_param, parsed>>

(***************************************************************************)
(* Bounds                                                                  *)
(***************************************************************************)
\* definition files one library-level load pass may meet
MaxFiles == 2
\* definition files a load pass started by main may meet
MaxMainFiles == 1
\* directories on the ancestor chain of the working directory
MaxDepth == 2
\* symbols in the argument of a direct parse_output call
MaxLen == 3

(***************************************************************************)
(* Options and strings                                                     *)
(***************************************************************************)
None == [some |-> FALSE, val |-> <<>>]

Some(v) == [some |-> TRUE, val |-> v]

RECURSIVE StringsUpTo(_, _)
StringsUpTo(syms, n) ==
    IF n = 0 THEN {<<>>}
    ELSE LET shorter == StringsUpTo(syms, n - 1)
         IN  shorter \cup {Append(s, c) : s \in shorter, c \in syms}

(***************************************************************************)
(* src/src/alias.rs: data                                                  *)
(***************************************************************************)
\* alias keywords that definition files declare
Keywords == {"a", "b", "apache", "count"}

\* the operators of the query language that a template may name directly
BuiltinOperators == {"count", "json", "parse"}

\* stage identifiers that occur in templates
Tokens == Keywords \cup {"json"}

\* the templates of the definition files
Templates == {<<t>> : t \in Tokens} \cup {<<"a", "b">>}

\* AliasPipeline { keyword, pipeline }
AliasPipeline(keyword, pipeline) == [keyword |-> keyword, pipeline |-> pipeline]

\* Option<&AliasPipeline>::None
NoAlias == [some |-> FALSE, val |-> AliasPipeline("", <<>>)]

\* Option<String>::None of InvalidAliasError.keyword
NoKeyword == [some |-> FALSE, val |-> ""]

\* the aliases compiled into the binary from the `aliases` directory
LOADED_ALIASES == <<AliasPipeline("apache", <<"parse">>)>>

LOADED_KEYWORDS == {LOADED_ALIASES[i].keyword : i \in 1..Len(LOADED_ALIASES)}

\* what a directory entry of an alias directory can be: a file that cannot
\* be read, a file that is not an AliasConfig, or an AliasConfig
Unreadable == [kind |-> "unreadable", keyword |-> "", template |-> <<>>]

Malformed == [kind |-> "malformed", keyword |-> "", template |-> <<>>]

Config(k, t) == [kind |-> "config", keyword |-> k, template |-> t]

Files == {Unreadable, Malformed} \cup {Config(k, t) : k \in Keywords, t \in Templates}

NoEntry == [kind |-> "none", keyword |-> "", template |-> <<>>]

\* InvalidAliasError { path, cause, keyword, contents }; `contents` records
\* whether the contents were kept
InvalidAliasError(path, cause, keyword, contents) ==
    [path |-> path, cause |-> cause, keyword |-> keyword, contents |-> contents]

(***************************************************************************)
(* src/src/alias.rs: lookup                                                *)
(***************************************************************************)
\* Find with the last match taken instead of the first
Find_Last(list, name) ==
    LET hits == {i \in 1..Len(list) : list[i].keyword = name}
    IN  IF hits = {} THEN NoAlias
        ELSE Some(list[CHOOSE i \in hits : \A j \in hits : i >= j])

\* iter().find(|alias| alias.keyword == name) over a slice of aliases
Find(list, name) ==
    LET hits == {i \in 1..Len(list) : list[i].keyword = name}
    IN  IF hits = {} THEN NoAlias
        ELSE Some(list[CHOOSE i \in hits : \A j \in hits : i <= j])

\* AliasPipeline::matching_string
matching_string(s) == Find(LOADED_ALIASES, s)

\* get_alias with the built-in aliases consulted first
get_alias_BuiltinFirst(list, name) ==
    IF matching_string(name).some THEN matching_string(name) ELSE Find(list, name)

\* AliasCollection::get_alias
get_alias(list, name) ==
    IF Find(list, name).some THEN Find(list, name) ELSE matching_string(name)

\* AliasCollection::valid_aliases
valid_keywords(list) == {list[i].keyword : i \in 1..Len(list)}

\* AliasPipeline::render
render(alias) == alias.pipeline

(***************************************************************************)
(* crate::lang::pipeline_template: every stage identifier of the template  *)
(* is looked up with get_alias and, when found, replaced by the rendered   *)
(* alias; otherwise it must name an operator of the language.              *)
(***************************************************************************)
RECURSIVE pipeline_template(_, _)
pipeline_template(template, list) ==
    IF template = <<>> THEN [ok |-> TRUE, pipeline |-> <<>>]
    ELSE LET name == Head(template)
             alias == get_alias(list, name)
             rest == pipeline_template(Tail(template), list)
         IN  IF alias.some
             THEN [ok |-> rest.ok, pipeline |-> render(alias.val) \o rest.pipeline]
             ELSE IF name \in BuiltinOperators
                  THEN [ok |-> rest.ok, pipeline |-> <<name>> \o rest.pipeline]
                  ELSE [ok |-> FALSE, pipeline |-> <<>>]

\* toml::from_str::<AliasConfig>
toml_from_str(contents) == contents.kind = "config"

\* parse_alias
parse_alias(contents, path, list) ==
    LET pipeline == pipeline_template(contents.template, list)
        noAlias == AliasPipeline("", <<>>)
        noError == InvalidAliasError(path, "", NoKeyword, FALSE)
    IN  IF ~toml_from_str(contents)
        THEN [ok |-> FALSE, alias |-> noAlias,
              error |-> InvalidAliasError(path, "toml", NoKeyword, TRUE)]
        ELSE IF ~pipeline.ok
        THEN [ok |-> FALSE, alias |-> noAlias,
              error |-> InvalidAliasError(path, "template", Some(contents.keyword), TRUE)]
        ELSE [ok |-> TRUE, alias |-> AliasPipeline(contents.keyword, pipeline.pipeline),
              error |-> noError]

(***************************************************************************)
(* src/src/bin/agrind.rs: parse_output                                     *)
(***************************************************************************)
\* the symbols of an --output argument
OutSyms == {"legacy", "json", "logfmt", "format", "bogus", "x", "="}

\* Result<OutputMode, InvalidArgs>: `text` is the template of Format and the
\* choice of InvalidOutputMode
OkMode(tag, text) == [ok |-> TRUE, tag |-> tag, text |-> text]

ErrArgs(tag, text) == [ok |-> FALSE, tag |-> tag, text |-> text]

\* str::find('='): the 1-based position of the first '=', 0 when there is none
find_eq(s) ==
    LET hits == {i \in 1..Len(s) : s[i] = "="}
    IN  IF hits = {} THEN 0 ELSE CHOOSE i \in hits : \A j \in hits : i <= j

parse_output(param) ==
    LET idx == find_eq(param)
        arg == IF idx = 0 THEN param ELSE SubSeq(param, 1, idx - 1)
        val0 == IF idx = 0 THEN <<"=">> ELSE SubSeq(param, idx, Len(param))
        val == Tail(val0)
    IN  CASE arg = <<"legacy">> /\ val = <<>> -> OkMode("Legacy", <<>>)
          [] arg = <<"json">> /\ val = <<>> -> OkMode("Json", <<>>)
          [] arg = <<"logfmt">> /\ val = <<>> -> OkMode("Logfmt", <<>>)
          [] arg = <<"format">> /\ val # <<>> -> OkMode("Format", val)
          [] arg = <<"format">> /\ val = <<>> -> ErrArgs("InvalidFormatString", <<>>)
          [] OTHER -> ErrArgs("InvalidOutputMode", arg)

\* select_output_mode with --output taking precedence over --format
select_output_mode_PrefersOutput(output, format) ==
    CASE output.some -> parse_output(output.val)
      [] ~output.some /\ format.some -> OkMode("Format", format.val)
      [] OTHER -> parse_output(<<"legacy">>)

\* main's match on (args.output, args.format)
select_output_mode(output, format) ==
    CASE output.some /\ format.some -> ErrArgs("CantSupplyBoth", <<>>)
      [] output.some /\ ~format.some -> parse_output(output.val)
      [] ~output.some /\ format.some -> OkMode("Format", format.val)
      [] OTHER -> parse_output(<<"legacy">>)

NoMode == [ok |-> FALSE, tag |-> "", text |-> <<>>]

(***************************************************************************)
(* src/src/alias.rs: the load pass                                         *)
(***************************************************************************)
IsPrefix(s, t) == Len(s) <= Len(t) /\ SubSeq(t, 1, Len(s)) = s

\* load_entry with a failed parse_alias dropped instead of collected
load_entry_DropsError(valid, invalid, entry, path) ==
    IF entry.kind = "unreadable"
    THEN [valid |-> valid,
          invalid |-> Append(invalid, InvalidAliasError(path, "io", NoKeyword, FALSE)),
          parsed |-> FALSE, against |-> <<>>]
    ELSE LET r == parse_alias(entry, path, valid)
         IN  IF r.ok
             THEN [valid |-> Append(valid, r.alias), invalid |-> invalid,
                   parsed |-> TRUE, against |-> valid]
             ELSE [valid |-> valid, invalid |-> invalid,
                   parsed |-> TRUE, against |-> valid]

\* load_entry with the loop left at the first invalid definition: nothing
\* is accepted after it
load_entry_StopsAtInvalid(valid, invalid, entry, path) ==
    IF entry.kind = "unreadable"
    THEN [valid |-> valid,
          invalid |-> Append(invalid, InvalidAliasError(path, "io", NoKeyword, FALSE)),
          parsed |-> FALSE, against |-> <<>>]
    ELSE LET r == parse_alias(entry, path, valid)
         IN  IF r.ok /\ invalid = <<>>
             THEN [valid |-> Append(valid, r.alias), invalid |-> invalid,
                   parsed |-> TRUE, against |-> valid]
             ELSE [valid |-> valid, invalid |-> Append(invalid, r.error),
                   parsed |-> TRUE, against |-> valid]

\* load_entry with every definition parsed against no alias at all
load_entry_AgainstNothing(valid, invalid, entry, path) ==
    IF entry.kind = "unreadable"
    THEN [valid |-> valid,
          invalid |-> Append(invalid, InvalidAliasError(path, "io", NoKeyword, FALSE)),
          parsed |-> FALSE, against |-> <<>>]
    ELSE LET r == parse_alias(entry, path, <<>>)
         IN  IF r.ok
             THEN [valid |-> Append(valid, r.alias), invalid |-> invalid,
                   parsed |-> TRUE, against |-> <<>>]
             ELSE [valid |-> valid, invalid |-> Append(invalid, r.error),
                   parsed |-> TRUE, against |-> <<>>]

\* the body of the aliases_from_dir loop for one directory entry that was
\* listed: the new accumulator, and the slice parse_alias was given
load_entry(valid, invalid, entry, path) ==
    IF entry.kind = "unreadable"
    THEN [valid |-> valid,
          invalid |-> Append(invalid, InvalidAliasError(path, "io", NoKeyword, FALSE)),
          parsed |-> FALSE, against |-> <<>>]
    ELSE LET r == parse_alias(entry, path, valid)
         IN  IF r.ok
             THEN [valid |-> Append(valid, r.alias), invalid |-> invalid,
                   parsed |-> TRUE, against |-> valid]
             ELSE [valid |-> valid, invalid |-> Append(invalid, r.error),
                   parsed |-> TRUE, against |-> valid]

\* a `?` of the load pass returns the error to the caller
LoadFails(fault) ==
    /\ faults' = faults \cup {fault}
    /\ loadResult' = "err"
    /\ pc' = "loaded"

\* find_all_aliases: the `for path in path.ancestors()` loop moves on, or
\* returns the accumulator
NextAncestor ==
    IF dirIdx + 1 < depth
    THEN /\ dirIdx' = dirIdx + 1
         /\ pc' = "find_local_aliases"
         /\ loadResult' = loadResult
    ELSE /\ dirIdx' = dirIdx
         /\ pc' = "loaded"
         /\ loadResult' = "ok"

\* load_aliases_ancestors(None): std::env::current_dir()? fails
CurrentDirFails ==
    /\ pc = "load_aliases_ancestors"
    /\ ~call.path
    /\ LoadFails("current_dir")
    /\ UNCHANGED <<args, call, pass, depth, dirIdx, valid_aliases, origin,
                   invalid_aliases, cur, against, fileBudget>>
    /\ UNCHANGED <<mainVars, outVars>>

\* load_aliases_ancestors: find_all_aliases starts on the working directory
LoadAncestors ==
    /\ pc = "load_aliases_ancestors"
    /\ \E d \in 1..MaxDepth : depth' = d
    /\ dirIdx' = 0
    /\ pass' = "ancestors"
    /\ pc' = "find_local_aliases"
    /\ UNCHANGED <<args, call, valid_aliases, origin, invalid_aliases, cur,
                   against, fileBudget, faults, loadResult>>
    /\ UNCHANGED <<mainVars, outVars>>

\* load_aliases_from_dir: aliases_from_dir on the given directory
LoadFromDir ==
    /\ pc = "load_aliases_from_dir"
    /\ depth' = 1
    /\ dirIdx' = 0
    /\ pass' = "dir"
    /\ pc' = "aliases_from_dir"
    /\ UNCHANGED <<args, call, valid_aliases, origin, invalid_aliases, cur,
                   against, fileBudget, faults, loadResult>>
    /\ UNCHANGED <<mainVars, outVars>>

\* find_local_aliases: dir.read_dir()?
FindLocalReadDir ==
    /\ pc = "find_local_aliases"
    /\ \/ LoadFails("read_dir")
       \/ /\ pc' = "find_map"
          /\ UNCHANGED <<faults, loadResult>>
    /\ UNCHANGED <<args, call, pass, depth, dirIdx, valid_aliases, origin,
                   invalid_aliases, cur, against, fileBudget>>
    /\ UNCHANGED <<mainVars, outVars>>

\* find_local_aliases: one step of find_map over the listing
FindMapEntry ==
    /\ pc = "find_map"
    /\ \/ \* Err(_): `_else => None`
          /\ faults' = faults \cup {"ancestor_entry"}
          /\ UNCHANGED <<pc, dirIdx, loadResult>>
       \/ \* Ok(entry) with another file name
          /\ UNCHANGED <<pc, dirIdx, loadResult, faults>>
       \/ \* Ok(entry) named ".agrind-aliases"
          /\ pc' = "aliases_from_dir"
          /\ UNCHANGED <<dirIdx, loadResult, faults>>
       \/ \* the listing ends without a match
          /\ NextAncestor
          /\ UNCHANGED faults
    /\ UNCHANGED <<args, call, pass, depth, valid_aliases, origin,
                   invalid_aliases, cur, against, fileBudget>>
    /\ UNCHANGED <<mainVars, outVars>>

\* aliases_from_dir: dir.read_dir()?
AliasesFromDirReadDir ==
    /\ pc = "aliases_from_dir"
    /\ \/ LoadFails("alias_read_dir")
       \/ /\ pc' = "entries"
          /\ UNCHANGED <<faults, loadResult>>
    /\ UNCHANGED <<args, call, pass, depth, dirIdx, valid_aliases, origin,
                   invalid_aliases, cur, against, fileBudget>>
    /\ UNCHANGED <<mainVars, outVars>>

\* aliases_from_dir: the iterator yields the next entry, or ends
NextEntry ==
    /\ pc = "entries"
    /\ \/ \* `entry?` on Err(_)
          /\ LoadFails("alias_entry")
          /\ UNCHANGED <<dirIdx, cur, fileBudget>>
       \/ \* Ok(entry)
          /\ fileBudget > 0
          /\ \E f \in Files : cur' = f
          /\ fileBudget' = fileBudget - 1
          /\ pc' = "entry"
          /\ UNCHANGED <<dirIdx, faults, loadResult>>
       \/ \* the listing ends: Ok(())
          /\ IF pass = "dir"
             THEN pc' = "loaded" /\ loadResult' = "ok" /\ dirIdx' = dirIdx
             ELSE NextAncestor
          /\ UNCHANGED <<cur, fileBudget, faults>>
    /\ UNCHANGED <<args, call, pass, depth, valid_aliases, origin,
                   invalid_aliases, against>>
    /\ UNCHANGED <<mainVars, outVars>>

\* aliases_from_dir: read_to_string and parse_alias on the entry taken
HandleEntry ==
    /\ pc = "entry"
    /\ LET r == load_entry(valid_aliases, invalid_aliases, cur, dirIdx)
       IN  /\ valid_aliases' = r.valid
           /\ invalid_aliases' = r.invalid
           /\ against' = IF r.parsed THEN r.against ELSE against
           /\ origin' = IF Len(r.valid) > Len(valid_aliases)
                        THEN Append(origin, dirIdx) ELSE origin
    /\ faults' = IF cur.kind = "unreadable"
                 THEN faults \cup {"read_to_string"} ELSE faults
    /\ cur' = NoEntry
    /\ pc' = "entries"
    /\ UNCHANGED <<args, call, pass, depth, dirIdx, fileBudget, loadResult>>
    /\ UNCHANGED <<mainVars, outVars>>

LoadNext ==
    \/ CurrentDirFails
    \/ LoadAncestors
    \/ LoadFromDir
    \/ FindLocalReadDir
    \/ FindMapEntry
    \/ AliasesFromDirReadDir
    \/ NextEntry
    \/ HandleEntry

NoArgs ==
    [alias_dir |-> FALSE, no_alias |-> FALSE, query |-> FALSE, update |-> FALSE,
     file |-> FALSE, output |-> None, format |-> None]

LoadInitVars ==
    /\ pass = "none"
    /\ depth = 0
    /\ dirIdx = 0
    /\ valid_aliases = <<>>
    /\ origin = <<>>
    /\ invalid_aliases = <<>>
    /\ cur = NoEntry
    /\ against = <<>>
    /\ faults = {}
    /\ loadResult = "none"

MainInitVars ==
    /\ aliases = <<>>
    /\ errors = <<>>
    /\ warned = 0
    /\ output_mode = NoMode
    /\ effects = {}
    /\ result = "running"

OutInitVars ==
    /\ output_param = <<>>
    /\ parsed = NoMode

\* a direct call of AliasCollection::load_aliases_ancestors(path) or of
\* AliasCollection::load_aliases_from_dir(path)
InitLoad ==
    /\ args = NoArgs
    /\ call \in {[fn |-> "load_aliases_ancestors", path |-> TRUE],
                 [fn |-> "load_aliases_ancestors", path |-> FALSE],
                 [fn |-> "load_aliases_from_dir", path |-> TRUE]}
    /\ pc = call.fn
    /\ fileBudget = MaxFiles
    /\ LoadInitVars
    /\ MainInitVars
    /\ OutInitVars

SpecLoad == InitLoad /\ [][LoadNext]_vars

(***************************************************************************)
(* src/src/bin/agrind.rs: main                                             *)
(***************************************************************************)
\* main returns
Return(r) ==
    /\ result' = r
    /\ pc' = "done"

\* #[cfg(feature = "self_update")] if args.update { return update(); }
MainUpdate ==
    /\ pc = "main"
    /\ args.update
    /\ \E r \in {"Ok", "UpdateError"} : Return(r)
    /\ UNCHANGED <<args, call, loadVars, aliases, errors, warned, output_mode,
                   effects, outVars>>

\* (Some(dir), false) => AliasCollection::load_aliases_from_dir(&dir)
MainLoadFromDir ==
    /\ pc = "main"
    /\ ~args.update
    /\ args.alias_dir /\ ~args.no_alias
    /\ call' = [fn |-> "load_aliases_from_dir", path |-> TRUE]
    /\ pc' = "load_aliases_from_dir"
    /\ UNCHANGED <<args, loadVars, mainVars, outVars>>

\* (None, false) => AliasCollection::load_aliases_ancestors(None)
MainLoadAncestors ==
    /\ pc = "main"
    /\ ~args.update
    /\ ~args.alias_dir /\ ~args.no_alias
    /\ call' = [fn |-> "load_aliases_ancestors", path |-> FALSE]
    /\ pc' = "load_aliases_ancestors"
    /\ UNCHANGED <<args, loadVars, mainVars, outVars>>

\* (Some(_), true) => return Err(InvalidArgs::CantDisableAndOverride.into())
MainCantDisableAndOverride ==
    /\ pc = "main"
    /\ ~args.update
    /\ args.alias_dir /\ args.no_alias
    /\ Return("CantDisableAndOverride")
    /\ UNCHANGED <<args, call, loadVars, aliases, errors, warned, output_mode,
                   effects, outVars>>

\* (None, true) => (AliasCollection::default(), vec![])
MainNoAlias ==
    /\ pc = "main"
    /\ ~args.update
    /\ ~args.alias_dir /\ args.no_alias
    /\ aliases' = <<>>
    /\ errors' = <<>>
    /\ pc' = "warnings"
    /\ UNCHANGED <<args, call, loadVars, warned, output_mode, effects, result,
                   outVars>>

\* MainLoaded with a failed load taken for an empty collection
MainLoaded_IgnoresError ==
    /\ pc = "loaded"
    /\ aliases' = IF loadResult = "err" THEN <<>> ELSE valid_aliases
    /\ errors' = IF loadResult = "err" THEN <<>> ELSE invalid_aliases
    /\ pc' = "warnings"
    /\ UNCHANGED <<args, call, loadVars, warned, output_mode, effects, result,
                   outVars>>

\* the `?` on the load: the error is returned, or (aliases, errors) is bound
MainLoaded ==
    /\ pc = "loaded"
    /\ IF loadResult = "err"
       THEN /\ Return("IoError")
            /\ UNCHANGED <<aliases, errors>>
       ELSE /\ aliases' = valid_aliases
            /\ errors' = invalid_aliases
            /\ pc' = "warnings"
            /\ UNCHANGED result
    /\ UNCHANGED <<args, call, loadVars, warned, output_mode, effects, outVars>>

\* for error in errors { error_reporter.handle_error(..Warning..) }
MainWarnings ==
    /\ pc = "warnings"
    /\ warned' = Len(errors)
    /\ pc' = "query"
    /\ UNCHANGED <<args, call, loadVars, aliases, errors, output_mode, effects,
                   result, outVars>>

\* args.query.ok_or(InvalidArgs::MissingQuery)?
MainQuery ==
    /\ pc = "query"
    /\ IF args.query
       THEN pc' = "output_mode" /\ UNCHANGED result
       ELSE Return("MissingQuery")
    /\ UNCHANGED <<args, call, loadVars, aliases, errors, warned, output_mode,
                   effects, outVars>>

\* let output_mode = match (args.output, args.format) {..}?
MainOutputMode ==
    /\ pc = "output_mode"
    /\ LET m == select_output_mode(args.output, args.format)
       IN  IF m.ok
           THEN /\ output_mode' = m
                /\ pc' = "pipeline"
                /\ UNCHANGED result
           ELSE /\ Return(m.tag)
                /\ UNCHANGED output_mode
    /\ UNCHANGED <<args, call, loadVars, aliases, errors, warned, effects, outVars>>

\* Pipeline::new(&query, stdout(), output_mode)?
MainPipeline ==
    /\ pc = "pipeline"
    /\ effects' = effects \cup {"pipeline"}
    /\ \/ Return("QueryError")
       \/ pc' = "input" /\ UNCHANGED result
    /\ UNCHANGED <<args, call, loadVars, aliases, errors, warned, output_mode,
                   outVars>>

\* match args.file: File::open(file_name)? and pipeline.process, or stdin
MainInput ==
    /\ pc = "input"
    /\ IF args.file
       THEN \/ /\ effects' = effects \cup {"open"}
               /\ Return("IoError")
            \/ /\ effects' = effects \cup {"open", "process"}
               /\ Return("Ok")
       ELSE /\ effects' = effects \cup {"process"}
            /\ Return("Ok")
    /\ UNCHANGED <<args, call, loadVars, aliases, errors, warned, output_mode,
                   outVars>>

MainNext ==
    \/ MainUpdate
    \/ MainLoadFromDir
    \/ MainLoadAncestors
    \/ MainCantDisableAndOverride
    \/ MainNoAlias
    \/ MainLoaded
    \/ MainWarnings
    \/ MainQuery
    \/ MainOutputMode
    \/ MainPipeline
    \/ MainInput

\* the --output arguments of the runs of main
MainOutputs ==
    {<<"json">>, <<"format", "=", "x">>, <<"format", "=">>, <<"bogus">>}

\* the --format arguments of the runs of main
MainFormats == {<<>>, <<"x">>}

\* Cli::parse(): query and --self-update are one argument group
ArgSet ==
    {a \in [alias_dir : BOOLEAN, no_alias : BOOLEAN, query : BOOLEAN,
            update : BOOLEAN, file : BOOLEAN,
            output : {None} \cup {Some(o) : o \in MainOutputs},
            format : {None} \cup {Some(f) : f \in MainFormats}] :
        ~(a.query /\ a.update)}

Init ==
    /\ args \in ArgSet
    /\ call = [fn |-> "main", path |-> FALSE]
    /\ pc = "main"
    /\ fileBudget = MaxMainFiles
    /\ LoadInitVars
    /\ MainInitVars
    /\ OutInitVars

Next == MainNext \/ LoadNext

Spec == Init /\ [][Next]_vars

(***************************************************************************)
(* A direct call of parse_output                                           *)
(***************************************************************************)
ParseOutput ==
    /\ pc = "parse_output"
    /\ parsed' = parse_output(output_param)
    /\ pc' = "done"
    /\ UNCHANGED <<args, call, loadVars, mainVars, output_param>>

InitOutput ==
    /\ args = NoArgs
    /\ call = [fn |-> "parse_output", path |-> FALSE]
    /\ pc = "parse_output"
    /\ fileBudget = 0
    /\ output_param \in StringsUpTo(OutSyms, MaxLen)
    /\ parsed = NoMode
    /\ LoadInitVars
    /\ MainInitVars

NextOutput == ParseOutput

SpecOutput == InitOutput /\ [][NextOutput]_vars

(***************************************************************************)
(* Properties of the load pass                                             *)
(***************************************************************************)
Range(s) == {s[i] : i \in 1..Len(s)}

\* the positions of the accepted definitions of keyword k
Defs(k) == {i \in 1..Len(valid_aliases) : valid_aliases[i].keyword = k}

\* C1: after load_aliases_ancestors has walked the ancestor chain, get_alias
\* of a keyword returns an accepted definition from the directory closest
\* to the working directory among those that define it; with a definition
\* in the working directory and one in an ancestor, the working directory's.
C1_ClosestDirectoryWins ==
    (pass = "ancestors" /\ loadResult = "ok") =>
        \A k \in Keywords :
            Defs(k) # {} =>
                LET got == get_alias(valid_aliases, k)
                    closest == {i \in Defs(k) : \A j \in Defs(k) : origin[i] <= origin[j]}
                IN  /\ got.some
                    /\ got.val \in {valid_aliases[i] : i \in closest}

\* a keyword with two different accepted definitions, one in the working
\* directory and one in its parent, after the chain has been walked
C1_Witness ==
    /\ pass = "ancestors" /\ loadResult = "ok"
    /\ \E i, j \in 1..Len(valid_aliases) :
        /\ valid_aliases[i].keyword = valid_aliases[j].keyword
        /\ valid_aliases[i].pipeline # valid_aliases[j].pipeline
        /\ origin[i] = 0 /\ origin[j] = 1

\* the keywords an alias can have: those of the definition files and those
\* of the built-in aliases
AliasKeywords == Keywords \cup LOADED_KEYWORDS

\* the entry taken by the loop is a definition that fails to load: it is
\* collected in the invalid list, nothing is accepted, the pass goes on
FailsToLoad ==
    /\ valid_aliases' = valid_aliases
    /\ invalid_aliases' =
         Append(invalid_aliases,
                InvalidAliasError(dirIdx, "template", Some(cur.keyword), TRUE))
    /\ pc' = "entries"
    /\ loadResult' = loadResult

\* C2 as stated: a definition whose template names an alias keyword (not
\* the name of an operator of the language) that was not accepted earlier
\* in the pass fails to load.
C2_UnacceptedKeywordFails ==
    [][(pc = "entry" /\ cur.kind = "config"
         /\ \E t \in (Range(cur.template) \cap AliasKeywords) \ BuiltinOperators :
               t \notin valid_keywords(valid_aliases))
       => FailsToLoad]_vars

\* C2, amended: a definition whose template names something that is neither
\* a keyword accepted earlier in the pass, nor the keyword of a built-in
\* alias, nor an operator of the language, fails to load: it is collected
\* in the invalid list, is not added to the valid aliases, and the pass
\* goes on.
C2_UnresolvableNameFails ==
    [][(pc = "entry" /\ cur.kind = "config"
         /\ \E t \in Range(cur.template) :
               /\ t \notin valid_keywords(valid_aliases)
               /\ t \notin LOADED_KEYWORDS
               /\ t \notin BuiltinOperators)
       => FailsToLoad]_vars

\* the definition of "a" was rejected and the definition of "b" came later
C2_Witness ==
    /\ Len(invalid_aliases) = 1 /\ Len(valid_aliases) = 1
    /\ invalid_aliases[1].cause = "template"
    /\ invalid_aliases[1].keyword = Some("a")
    /\ valid_aliases[1].keyword = "b"
    /\ pc = "entries"

\* the I/O failures that make a load pass return an error
FatalFaults == {"current_dir", "read_dir", "alias_read_dir", "alias_entry"}

\* C3: a malformed file, or one whose template does not parse, is recorded
\* in the invalid list and the pass goes on; every well-formed definition
\* that parses against the aliases accepted before it is appended to the
\* valid list and stays there; the load returns an error only after an I/O
\* failure, never because of an invalid definition.
C3_InvalidDefinitionsNotFatal ==
    /\ [][(pc = "entry" /\ cur.kind \in {"malformed", "config"}) =>
            IF cur.kind = "malformed"
               \/ ~pipeline_template(cur.template, valid_aliases).ok
            THEN /\ Len(invalid_aliases') = Len(invalid_aliases) + 1
                 /\ IsPrefix(invalid_aliases, invalid_aliases')
                 /\ invalid_aliases'[Len(invalid_aliases')].cause \in {"toml", "template"}
                 /\ valid_aliases' = valid_aliases
                 /\ pc' = "entries" /\ loadResult' = loadResult
            ELSE /\ Len(valid_aliases') = Len(valid_aliases) + 1
                 /\ valid_aliases'[Len(valid_aliases')].keyword = cur.keyword
                 /\ invalid_aliases' = invalid_aliases]_vars
    /\ [][IsPrefix(valid_aliases, valid_aliases')]_vars
    /\ [](loadResult = "err" => faults \cap FatalFaults # {})
    /\ []((loadResult = "ok" /\ pc = "loaded") => faults \cap FatalFaults = {})

\* a load returned Ok with a malformed file of the working directory on the
\* invalid list and a definition of the parent directory, met after it,
\* on the valid list
C3_Witness ==
    /\ loadResult = "ok"
    /\ Len(invalid_aliases) = 1 /\ Len(valid_aliases) = 1
    /\ invalid_aliases[1].cause = "toml" /\ invalid_aliases[1].path = 0
    /\ origin = <<1>>

\* C5: get_alias returns the local alias of a keyword when the collection
\* has one, a built-in alias only when it has none, and None when neither
\* a local nor a built-in alias has the keyword.
C5_BuiltinFallback ==
    \A k \in Tokens :
        LET got == get_alias(valid_aliases, k)
            builtin == {i \in 1..Len(LOADED_ALIASES) : LOADED_ALIASES[i].keyword = k}
        IN  /\ Defs(k) # {} =>
                got.some /\ got.val \in {valid_aliases[i] : i \in Defs(k)}
            /\ (Defs(k) = {} /\ builtin # {}) =>
                got.some /\ got.val \in {LOADED_ALIASES[i] : i \in builtin}
            /\ (Defs(k) = {} /\ builtin = {}) => ~got.some

\* a loaded collection that overrides a built-in alias with another
\* pipeline, and has no alias for some keyword that is not built in
C5_Witness ==
    /\ loadResult = "ok"
    /\ \E i \in 1..Len(valid_aliases) :
        /\ valid_aliases[i].keyword \in LOADED_KEYWORDS
        /\ \A j \in 1..Len(LOADED_ALIASES) :
              LOADED_ALIASES[j].pipeline # valid_aliases[i].pipeline
    /\ Defs("a") = {}

\* C9: every definition is parsed against exactly the aliases accepted
\* before it in the pass, in acceptance order; the valid and invalid lists
\* only grow at their ends; every listed entry adds one element to exactly
\* one of the two lists.
C9_FoldInDiscoveryOrder ==
    /\ [][pc = "entry" =>
            /\ Len(valid_aliases') + Len(invalid_aliases') =
                 Len(valid_aliases) + Len(invalid_aliases) + 1
            /\ cur.kind # "unreadable" => against' = valid_aliases
            /\ Len(valid_aliases') > Len(valid_aliases) =>
                 valid_aliases'[Len(valid_aliases')] =
                   AliasPipeline(cur.keyword,
                                 pipeline_template(cur.template, valid_aliases).pipeline)]_vars
    /\ [][IsPrefix(valid_aliases, valid_aliases')
          /\ IsPrefix(invalid_aliases, invalid_aliases')]_vars

\* a definition that names the alias accepted just before it was parsed
\* against that alias and accepted with the alias spliced in
C9_Witness ==
    /\ Len(valid_aliases) = 2
    /\ against = <<valid_aliases[1]>>
    /\ valid_aliases[1] = AliasPipeline("a", <<"json">>)
    /\ valid_aliases[2] = AliasPipeline("b", <<"json">>)

(***************************************************************************)
(* Properties of main                                                      *)
(***************************************************************************)
\* main holds the alias collection and has not returned
AfterLoad == {"warnings", "query", "output_mode", "pipeline", "input"}

\* C4: in a run with --no-alias and without --alias-dir no alias directory
\* is read and get_alias on the collection handed to the query returns None
\* for every keyword.
C4_NoAliasResolvesNothing ==
    (args.no_alias /\ ~args.alias_dir /\ pc \in AfterLoad) =>
        /\ pass = "none"
        /\ aliases = <<>>
        /\ \A k \in Tokens : ~get_alias(aliases, k).some

\* main has evaluated its match on (args.output, args.format)
OutputModeSelected ==
    \/ output_mode.ok
    \/ result \in {"CantSupplyBoth", "InvalidFormatString", "InvalidOutputMode"}

\* C7: a run given only --format t selects the output mode, or fails with
\* the error, of parse_output on "format=" followed by t.
C7_FormatFlagIsOutputFormat ==
    (args.format.some /\ ~args.output.some /\ OutputModeSelected) =>
        LET same == parse_output(<<"format", "=">> \o args.format.val)
        IN  IF same.ok THEN output_mode = same
            ELSE ~output_mode.ok /\ result = same.tag

\* the configuration errors of a command line
ConfigErrors(a) ==
    (IF a.alias_dir /\ a.no_alias THEN {"CantDisableAndOverride"} ELSE {})
    \cup (IF ~a.query THEN {"MissingQuery"} ELSE {})
    \cup (IF a.output.some /\ a.format.some THEN {"CantSupplyBoth"} ELSE {})
    \cup (IF a.output.some /\ ~a.format.some /\ ~parse_output(a.output.val).ok
          THEN {parse_output(a.output.val).tag} ELSE {})

FirstError(a) ==
    IF a.alias_dir /\ a.no_alias THEN "CantDisableAndOverride"
    ELSE IF loadResult = "err" THEN "IoError"
    ELSE IF ~a.query THEN "MissingQuery"
    ELSE IF a.output.some /\ a.format.some THEN "CantSupplyBoth"
    ELSE parse_output(a.output.val).tag

C10_EveryListingErrorFatal ==
    (pc \in {"loaded", "done"} \cup AfterLoad
     /\ faults \cap (FatalFaults \cup {"ancestor_entry"}) # {}) =>
        /\ loadResult = "err"
        /\ effects = {}
        /\ pc = "done" => result = "IoError"

\* C10, amended: when the working directory cannot be determined, a
\* directory of the ancestor chain or an alias directory cannot be listed,
\* or an entry of an alias directory cannot be read, the load returns an
\* error, no collection and no warning reaches main, and main returns the
\* error without running the query.  (An unreadable entry met while an
\* ancestor directory is searched for `.agrind-aliases` is skipped, and a
\* definition file whose contents cannot be read is a warning.)
C10_LoadIoErrorsFatal ==
    /\ faults \cap FatalFaults # {} =>
        /\ pc \in {"loaded", "done"}
        /\ loadResult = "err"
        /\ aliases = <<>> /\ errors = <<>> /\ warned = 0
        /\ effects = {}
        /\ pc = "done" => result = "IoError"
    /\ \A i \in 1..Len(invalid_aliases) :
        invalid_aliases[i].cause = "io" => "read_to_string" \in faults
    /\ loadResult = "err" => faults \cap FatalFaults # {}

\* main returned the I/O error of an alias directory entry that could not
\* be read, after a definition had been accepted
C10_Witness ==
    /\ pc = "done"
    /\ result = "IoError"
    /\ "alias_entry" \in faults
    /\ Len(valid_aliases) = 1

(***************************************************************************)
(* Properties of parse_output                                              *)
(***************************************************************************)
\* the result C6 states for an --output argument
StatedMode(param) ==
    LET idx == find_eq(param)
        before == IF idx = 0 THEN param ELSE SubSeq(param, 1, idx - 1)
        after == IF idx = 0 THEN <<>> ELSE SubSeq(param, idx + 1, Len(param))
    IN  IF param = <<"format">> \/ (idx # 0 /\ before = <<"format">> /\ after = <<>>)
        THEN ErrArgs("InvalidFormatString", <<>>)
        ELSE IF idx # 0 /\ before = <<"format">>
        THEN OkMode("Format", after)
        ELSE IF param = <<"legacy">> THEN OkMode("Legacy", <<>>)
        ELSE IF param = <<"json">> THEN OkMode("Json", <<>>)
        ELSE IF param = <<"logfmt">> THEN OkMode("Logfmt", <<>>)
        ELSE ErrArgs("InvalidOutputMode", before)

\* C6: parse_output returns, for every argument, the result stated: the
\* format errors, Format(t), the three plain modes, and InvalidOutputMode
\* naming the text before the first '=' for every other argument.
C6_ParseOutputAsStated ==
    pc = "done" => parsed = StatedMode(output_param)

====
